---- MODULE Spec2Model ----
(***************************************************************************)
(* Model of the OpenSSH public-key decoder of                              *)
(* src/cryptography/hazmat/primitives/serialization.py:                    *)
(* load_ssh_public_key, the three per-algorithm loaders and the RFC 4251   *)
(* readers.  Byte strings are sequences of integers 0..255.  One behaviour *)
(* is one call: Init draws an input record, the actions are the statements *)
(* of the call in program order, pc is the statement about to run.         *)
(***************************************************************************)
EXTENDS Integers, Sequences, FiniteSets, TLC

VARIABLES
    gen,            \* the key material and framing the input record was built from
    data,           \* argument `data` of load_ssh_public_key
    pc,             \* statement about to run, or "done" / "failed"
    key_parts,      \* data.split(b' ')
    key_type,       \* key_parts[0]
    loader,         \* the selected per-algorithm loader
    decoded_data,   \* base64.b64decode(key_body)
    inner_key_type, \* first string of the blob
    rest,           \* unread remainder of the blob
    nums,           \* integers read so far by the RSA / DSS loader
    curve_name,     \* ECDSA: curve name read from the blob
    point,          \* ECDSA: point data (local `data` of the ECDSA loader)
    curve,          \* ECDSA: curve object looked up from curve_name
    result,         \* numbers handed to the key-construction backend
    err             \* exception that ended the call, "none" while running

vars == <<gen, data, pc, key_parts, key_type, loader, decoded_data,
          inner_key_type, rest, nums, curve_name, point, curve, result, err>>

----------------------------------------------------------------------------
(* Bounds of the input space *)

\* longest run of bytes appended after a blob's last field
MaxExtra == 2
\* largest number of bytes cut off the end of a blob
MaxCut == 6

----------------------------------------------------------------------------
(* Byte-string literals *)

L_ssh_rsa == <<115, 115, 104, 45, 114, 115, 97>>
L_ssh_dss == <<115, 115, 104, 45, 100, 115, 115>>
L_ecdsa_prefix == <<101, 99, 100, 115, 97, 45, 115, 104, 97, 50, 45>>
N_nistp256 == <<110, 105, 115, 116, 112, 50, 53, 54>>
N_nistp384 == <<110, 105, 115, 116, 112, 51, 56, 52>>
N_nistp521 == <<110, 105, 115, 116, 112, 53, 50, 49>>
L_ecdsa_256 == L_ecdsa_prefix \o N_nistp256
L_ecdsa_384 == L_ecdsa_prefix \o N_nistp384
L_ecdsa_521 == L_ecdsa_prefix \o N_nistp521

\* labels the dispatcher does not know
N_junk == <<106, 117, 110, 107>>
L_ssh_ed25519 == <<115, 115, 104, 45, 101, 100, 50, 53, 53, 49, 57>>
L_SSH_RSA == <<83, 83, 72, 45, 82, 83, 65>>
L_ssh_rs == <<115, 115, 104, 45, 114, 115>>
L_ssh_rsa2 == L_ssh_rsa \o <<50>>
L_ecdsa_junk == L_ecdsa_prefix \o N_junk
L_empty == <<>>

Comment == <<97, 64, 98>>

\* value of a local that has not been assigned yet (no byte is negative)
Unset == <<-1>>

SupportedLabels == {L_ssh_rsa, L_ssh_dss, L_ecdsa_256, L_ecdsa_384, L_ecdsa_521}
EcdsaLabels == {L_ecdsa_256, L_ecdsa_384, L_ecdsa_521}
CurveNames == {N_nistp256, N_nistp384, N_nistp521}
OtherLabels == {L_ssh_ed25519, L_SSH_RSA, L_ssh_rs, L_ssh_rsa2, L_ecdsa_junk, L_empty}
AllLabels == SupportedLabels \cup OtherLabels

----------------------------------------------------------------------------
(* Sequence helpers *)

Min(a, b) == IF a < b THEN a ELSE b

\* Python slice s[lo:hi] with 0 <= lo, hi (indices clamp to len(s))
Slice(s, lo, hi) == SubSeq(s, lo + 1, Min(hi, Len(s)))

\* Python slice s[lo:]
SliceFrom(s, lo) == SubSeq(s, lo + 1, Len(s))

RECURSIVE Zeros(_)
Zeros(n) == IF n <= 0 THEN <<>> ELSE <<0>> \o Zeros(n - 1)

----------------------------------------------------------------------------
(* The wire format: an encoder built from the field layouts of the blob     *)
(* (string(s) = uint32(len(s)) | s, mpint, base64 transport, space framing) *)

\* struct.pack('>I', n)
PackU32(n) ==
    << (n \div 16777216) % 256, (n \div 65536) % 256, (n \div 256) % 256, n % 256 >>

EncodeString(s) == PackU32(Len(s)) \o s

\* minimal big-endian magnitude of v; 0 is the empty string
RECURSIVE IntToBytes(_)
IntToBytes(v) == IF v = 0 THEN <<>> ELSE IntToBytes(v \div 256) \o <<v % 256>>

\* RFC 4251 mpint of a non-negative v: a zero byte goes first when the top bit is set
EncodeMpint(v) ==
    LET b == IntToBytes(v)
    IN  EncodeString(IF b # <<>> /\ b[1] >= 128 THEN <<0>> \o b ELSE b)

\* v as exactly w big-endian bytes
FixedWidth(v, w) == LET b == IntToBytes(v) IN Zeros(w - Len(b)) \o b

RECURSIVE EncodeMpints(_)
EncodeMpints(vs) ==
    IF vs = <<>> THEN <<>> ELSE EncodeMpint(Head(vs)) \o EncodeMpints(Tail(vs))

\* the base64 alphabet A-Z a-z 0-9 + /
B64Char(v) ==
    IF v < 26 THEN 65 + v
    ELSE IF v < 52 THEN 71 + v
    ELSE IF v < 62 THEN v - 4
    ELSE IF v = 62 THEN 43 ELSE 47

RECURSIVE B64Encode(_)
B64Encode(b) ==
    IF Len(b) = 0 THEN <<>>
    ELSE IF Len(b) = 1 THEN
        << B64Char(b[1] \div 4), B64Char((b[1] % 4) * 16), 61, 61 >>
    ELSE IF Len(b) = 2 THEN
        << B64Char(b[1] \div 4), B64Char((b[1] % 4) * 16 + b[2] \div 16),
           B64Char((b[2] % 16) * 4), 61 >>
    ELSE
        << B64Char(b[1] \div 4), B64Char((b[1] % 4) * 16 + b[2] \div 16),
           B64Char((b[2] % 16) * 4 + b[3] \div 64), B64Char(b[3] % 64) >>
        \o B64Encode(SubSeq(b, 4, Len(b)))

\* bytes of the coordinates of a curve of the given size
CoordBytes(bits) == (bits + 7) \div 8

\* the EC point string of an input
PointOf(g) ==
    LET full == <<g.marker>> \o FixedWidth(g.vals[1], CoordBytes(g.bits))
                             \o FixedWidth(g.vals[2], CoordBytes(g.bits))
    IN  CASE g.ptkind = "full"  -> full
          [] g.ptkind = "short" -> SubSeq(full, 1, Len(full) - 1)
          [] g.ptkind = "long"  -> full \o <<0>>
          [] g.ptkind = "empty" -> <<>>

\* the blob of an input: tag, the algorithm's fields, appended bytes, then the cut
BlobOf(g) ==
    LET whole == EncodeString(g.tag)
                 \o (IF g.alg = "ecdsa"
                     THEN EncodeString(g.cname) \o EncodeString(PointOf(g))
                     ELSE EncodeMpints(g.vals))
                 \o g.extra
    IN  SubSeq(whole, 1, Len(whole) - g.cut)

\* the base64 body of an input
BodyOf(g) ==
    LET b == B64Encode(BlobOf(g))
    IN  CASE g.b64 = "ok"    -> b
          [] g.b64 = "nopad" -> SubSeq(b, 1, Len(b) - 1)
          [] g.b64 = "noise" -> <<33>> \o b \o <<61, 33>>

\* the text record of an input
RecordOf(g) ==
    LET l == g.label
        b == BodyOf(g)
        sp == <<32>>
    IN  CASE g.frame = "plain"         -> l \o sp \o b
          [] g.frame = "comment"       -> l \o sp \o b \o sp \o Comment
          [] g.frame = "one"           -> l
          [] g.frame = "four"          -> l \o sp \o b \o sp \o Comment \o sp \o Comment
          [] g.frame = "dblspace"      -> l \o sp \o sp \o b
          [] g.frame = "lead"          -> sp \o l \o sp \o b
          [] g.frame = "trail"         -> l \o sp \o b \o sp
          [] g.frame = "trail_comment" -> l \o sp \o b \o sp \o Comment \o sp
          [] g.frame = "lead_comment"  -> sp \o l \o sp \o b \o sp \o Comment

----------------------------------------------------------------------------
(* The inputs of a call *)

\* integers encoded as mpints: zero, one byte, top bit set, several bytes
MpintVals == {0, 1, 128, 65537}
DssVals == {0, 128, 65537}
\* integers encoded as fixed-width coordinates
CoordVals == {0, 1, 258}

RECURSIVE ByteRuns(_)
\* the byte strings over {0, 255} of length at most n
ByteRuns(n) ==
    IF n = 0 THEN {<<>>}
    ELSE LET shorter == ByteRuns(n - 1)
         IN  shorter \cup {r \o <<b>> : r \in shorter, b \in {0, 255}}

TagLayout(tag) ==
    IF tag = L_ssh_dss THEN "dss"
    ELSE IF tag \in EcdsaLabels \cup {L_ecdsa_junk} THEN "ecdsa"
    ELSE "rsa"

TagCurveName(tag) ==
    IF TagLayout(tag) = "ecdsa" THEN SliceFrom(tag, Len(L_ecdsa_prefix)) ELSE N_nistp256

NameBits(cname) ==
    IF cname = N_nistp384 THEN 384 ELSE IF cname = N_nistp521 THEN 521 ELSE 256

LayoutVals(alg) ==
    CASE alg = "rsa"   -> {<<e, n>> : e \in MpintVals, n \in MpintVals}
      [] alg = "dss"   -> {<<p, q, g, y>> : p \in DssVals, q \in DssVals,
                                            g \in DssVals, y \in DssVals}
      [] alg = "ecdsa" -> {<<x, y>> : x \in CoordVals, y \in CoordVals}

DefaultVals(alg) ==
    CASE alg = "rsa"   -> <<65537, 128>>
      [] alg = "dss"   -> <<128, 1, 65537, 0>>
      [] alg = "ecdsa" -> <<258, 1>>

Input(label, frame, b64, tag, vals, cname, bits, marker, ptkind, extra, cut) ==
    [label |-> label, frame |-> frame, b64 |-> b64, tag |-> tag,
     alg |-> TagLayout(tag), vals |-> vals, cname |-> cname, bits |-> bits,
     marker |-> marker, ptkind |-> ptkind, extra |-> extra, cut |-> cut]

\* keys of every supported type, whole, with bytes appended, or cut short
KeyInputs ==
    { Input(l, f, "ok", l, v, TagCurveName(l), NameBits(TagCurveName(l)), 4, "full",
            ec[1], ec[2]) :
        l \in SupportedLabels, f \in {"plain", "comment"},
        v \in UNION {LayoutVals(a) : a \in {"rsa", "dss", "ecdsa"}},
        ec \in {<<x, 0>> : x \in ByteRuns(MaxExtra)} \cup {<<<<>>, c>> : c \in 1..MaxCut} }

WellTyped(g) == g.vals \in LayoutVals(g.alg)

Frames ==
    {"plain", "comment", "one", "four", "dblspace", "lead", "trail",
     "trail_comment", "lead_comment"}

\* every label against every embedded tag, in every framing and transport
FramingInputs ==
    { Input(l, f, b, t, DefaultVals(TagLayout(t)), TagCurveName(t),
            NameBits(TagCurveName(t)), 4, "full", <<>>, 0) :
        l \in AllLabels, f \in Frames, b \in {"ok", "nopad", "noise"},
        t \in SupportedLabels \cup {L_ssh_ed25519, L_ecdsa_junk} }

\* ECDSA blobs: curve names, point markers and point lengths, whole, with a byte
\* appended, or with the last byte cut off
PointInputs ==
    { Input(l, "plain", "ok", l, DefaultVals("ecdsa"), cn, bits, m, k, ec[1], ec[2]) :
        l \in EcdsaLabels, cn \in CurveNames \cup {N_junk}, bits \in {256, 384, 521},
        m \in {0, 2, 3, 4}, k \in {"full", "short", "long", "empty"},
        ec \in {<<x, 0>> : x \in ByteRuns(1)} \cup {<<<<>>, 1>>} }

Inputs == {g \in KeyInputs : WellTyped(g)} \cup FramingInputs \cup PointInputs

\* an input built to the letter of the format
WellFormed(g) ==
    /\ g.frame \in {"plain", "comment", "trail"}
    /\ g.b64 \in {"ok", "noise"}
    /\ g.label \in SupportedLabels
    /\ g.tag = g.label
    /\ g.alg = "ecdsa" =>
        /\ g.cname = TagCurveName(g.label)
        /\ g.bits = NameBits(g.cname)
        /\ g.marker = 4
        /\ g.ptkind = "full"
    /\ g.extra = <<>>
    /\ g.cut = 0

----------------------------------------------------------------------------
(* Library functions the decoder calls *)

\* positions of the separator in s
SpacesOf(s) == {i \in 1..Len(s) : s[i] = 32}

\* position of the k-th separator of s; 0 before the first, Len(s) + 1 after the last
Separator(s, k) ==
    IF k = 0 THEN 0
    ELSE IF k > Cardinality(SpacesOf(s)) THEN Len(s) + 1
    ELSE CHOOSE i \in SpacesOf(s) : Cardinality({j \in SpacesOf(s) : j < i}) = k - 1

\* bytes.split(b' '): the fields between the separators, one more than there are
\* separators, empty between two adjacent ones and at either end
split(s) ==
    [k \in 1..(Cardinality(SpacesOf(s)) + 1) |->
        SubSeq(s, Separator(s, k - 1) + 1, Separator(s, k) - 1)]

\* value of a base64 character, 64 for a byte outside the alphabet
B64Value(c) ==
    IF c >= 65 /\ c <= 90 THEN c - 65
    ELSE IF c >= 97 /\ c <= 122 THEN c - 71
    ELSE IF c >= 48 /\ c <= 57 THEN c + 4
    ELSE IF c = 43 THEN 62
    ELSE IF c = 47 THEN 63
    ELSE 64

\* what b64decode returns in place of bytes when it raises
B64Error == <<-2>>

\* binascii.a2b_base64, not validating, one pass of its loop over byte c:
\* a byte outside the alphabet is skipped, a complete pad sequence ends the input
A2bStep(st, c) ==
    IF st.done THEN st
    ELSE IF c = 61 THEN
        IF st.quad_pos >= 2
        THEN IF st.quad_pos + st.pads + 1 >= 4
             THEN [st EXCEPT !.done = TRUE]
             ELSE [st EXCEPT !.pads = st.pads + 1]
        ELSE st
    ELSE LET v == B64Value(c) IN
        IF v >= 64 THEN st
        ELSE CASE st.quad_pos = 0 ->
                    [st EXCEPT !.quad_pos = 1, !.leftchar = v, !.pads = 0]
               [] st.quad_pos = 1 ->
                    [st EXCEPT !.quad_pos = 2, !.leftchar = v % 16, !.pads = 0,
                               !.out = Append(st.out, st.leftchar * 4 + v \div 16)]
               [] st.quad_pos = 2 ->
                    [st EXCEPT !.quad_pos = 3, !.leftchar = v % 4, !.pads = 0,
                               !.out = Append(st.out, st.leftchar * 16 + v \div 4)]
               [] st.quad_pos = 3 ->
                    [st EXCEPT !.quad_pos = 0, !.leftchar = 0, !.pads = 0,
                               !.out = Append(st.out, st.leftchar * 64 + v)]

\* the loop of a2b_base64 over s[lo..hi], left to right; nothing is read after
\* the pad sequence that ends the input
RECURSIVE A2bLoop(_, _, _, _)
A2bLoop(s, lo, hi, st) ==
    IF lo > hi THEN st
    ELSE IF lo = hi THEN A2bStep(st, s[lo])
    ELSE LET mid == (lo + hi) \div 2
             left == A2bLoop(s, lo, mid, st)
         IN  IF left.done THEN left ELSE A2bLoop(s, mid + 1, hi, left)

\* base64.b64decode(s): an incomplete last quad is an error
b64decode(s) ==
    LET st == A2bLoop(s, 1, Len(s),
                      [quad_pos |-> 0, leftchar |-> 0, pads |-> 0, out |-> <<>>,
                       done |-> FALSE])
    IN  IF ~st.done /\ st.quad_pos # 0 THEN B64Error ELSE st.out

\* the accumulation of int_from_bytes over b[lo..hi], most significant byte first;
\* the left half is accumulated before the right half is entered
RECURSIVE IntLoop(_, _, _, _)
IntLoop(b, lo, hi, acc) ==
    IF lo > hi THEN acc
    ELSE IF lo = hi THEN acc * 256 + b[lo]
    ELSE LET mid == (lo + hi) \div 2
             left == IntLoop(b, lo, mid, acc)
         IN  IF left = 0 THEN IntLoop(b, mid + 1, hi, 0) ELSE IntLoop(b, mid + 1, hi, left)

\* utils.int_from_bytes(b, byteorder='big', signed=False)
int_from_bytes(b) == IntLoop(b, 1, Len(b), 0)

\* key_size of the curve classes of the ec module
key_size(c) ==
    CASE c = "SECP256R1" -> 256
      [] c = "SECP384R1" -> 384
      [] c = "SECP521R1" -> 521

----------------------------------------------------------------------------
(* The RFC 4251 readers *)

\* struct.unpack('>I', b) of four bytes
unpack_u32(b) == ((b[1] * 256 + b[2]) * 256 + b[3]) * 256 + b[4]

\* _read_next_string: data[:4] shorter than four bytes makes struct.unpack raise
\* struct.error; the two slices clamp to the end of the data
_read_next_string(d) ==
    IF Len(Slice(d, 0, 4)) # 4
    THEN [err |-> "struct.error", val |-> <<>>, rest |-> <<>>]
    ELSE LET str_len == unpack_u32(Slice(d, 0, 4))
         IN  [err |-> "none", val |-> Slice(d, 4, 4 + str_len),
              rest |-> SliceFrom(d, 4 + str_len)]

\* _read_next_mpint: the string, read as an unsigned big-endian integer
_read_next_mpint(d) ==
    LET r == _read_next_string(d)
    IN  IF r.err # "none" THEN [err |-> r.err, val |-> 0, rest |-> <<>>]
        ELSE [err |-> "none", val |-> int_from_bytes(r.val), rest |-> r.rest]

----------------------------------------------------------------------------
(* The call *)

NoResult == [kind |-> "none", nums |-> <<>>, curve |-> "none"]

Init ==
    /\ gen \in Inputs
    /\ data = RecordOf(gen)
    /\ pc = "split"
    /\ key_parts = <<>>
    /\ key_type = Unset
    /\ loader = "none"
    /\ decoded_data = Unset
    /\ inner_key_type = Unset
    /\ rest = Unset
    /\ nums = <<>>
    /\ curve_name = Unset
    /\ point = Unset
    /\ curve = "none"
    /\ result = NoResult
    /\ err = "none"

(* How a statement ends.  An exception is named by the error kind of its    *)
(* raise statement: ValueError of line 39 and 60 is MalformedRecord, of     *)
(* line 65 and 102 TypeMismatch, of line 77, 89 and 107 TrailingData, of    *)
(* line 123 MalformedPoint; NotImplementedError of line 116 is              *)
(* CompressedPointUnsupported.  An exception no raise statement of the      *)
(* module produces keeps its Python name: struct.error, IndexError,         *)
(* KeyError.                                                                *)
Raise(kind) == pc' = "failed" /\ err' = kind /\ UNCHANGED result
Goto(next) == pc' = next /\ UNCHANGED <<err, result>>
Return(r) == pc' = "done" /\ result' = r /\ UNCHANGED err

\* mutant: only a record of fewer than two fields is refused
Split_atleast2 ==
    /\ pc = "split"
    /\ key_parts' = split(data)
    /\ IF Len(key_parts') < 2
       THEN Raise("MalformedRecord")
       ELSE Goto("dispatch")
    /\ UNCHANGED <<gen, data, key_type, loader, decoded_data, inner_key_type,
                   rest, nums, curve_name, point, curve>>

\* line 36-40: split the record, two or three fields
Split ==
    /\ pc = "split"
    /\ key_parts' = split(data)
    /\ IF Len(key_parts') # 2 /\ Len(key_parts') # 3
       THEN Raise("MalformedRecord")
       ELSE Goto("dispatch")
    /\ UNCHANGED <<gen, data, key_type, loader, decoded_data, inner_key_type,
                   rest, nums, curve_name, point, curve>>

\* mutant: the RSA label is matched as a prefix
LoaderOf_prefix(label) ==
    IF Slice(label, 0, Len(L_ssh_rsa)) = L_ssh_rsa THEN "rsa"
    ELSE IF label = L_ssh_dss THEN "dss"
    ELSE IF label \in {L_ecdsa_256, L_ecdsa_384, L_ecdsa_521} THEN "ecdsa"
    ELSE "none"

\* mutant: every label that starts with "ecdsa-sha2-" goes to the ECDSA loader
LoaderOf_anycurve(label) ==
    IF label = L_ssh_rsa THEN "rsa"
    ELSE IF label = L_ssh_dss THEN "dss"
    ELSE IF Slice(label, 0, Len(L_ecdsa_prefix)) = L_ecdsa_prefix THEN "ecdsa"
    ELSE "none"

\* line 44-53: the loader of a label, "none" for the else branch
LoaderOf(label) ==
    IF label = L_ssh_rsa THEN "rsa"
    ELSE IF label = L_ssh_dss THEN "dss"
    ELSE IF label \in {L_ecdsa_256, L_ecdsa_384, L_ecdsa_521} THEN "ecdsa"
    ELSE "none"

\* line 42-53: pick the loader by the label
Dispatch ==
    /\ pc = "dispatch"
    /\ key_type' = key_parts[1]
    /\ loader' = LoaderOf(key_type')
    /\ IF loader' = "none"
       THEN Raise("UnsupportedAlgorithm")
       ELSE Goto("b64decode")
    /\ UNCHANGED <<gen, data, key_parts, decoded_data, inner_key_type,
                   rest, nums, curve_name, point, curve>>

\* line 55-60: decode the body
B64Decode ==
    /\ pc = "b64decode"
    /\ LET d == b64decode(key_parts[2]) IN
        IF d = B64Error
        THEN Raise("MalformedRecord") /\ UNCHANGED decoded_data
        ELSE decoded_data' = d /\ Goto("read_inner")
    /\ UNCHANGED <<gen, data, key_parts, key_type, loader, inner_key_type,
                   rest, nums, curve_name, point, curve>>

\* line 62: read the embedded type tag
ReadInnerType ==
    /\ pc = "read_inner"
    /\ LET r == _read_next_string(decoded_data) IN
        IF r.err # "none"
        THEN Raise(r.err) /\ UNCHANGED <<inner_key_type, rest>>
        ELSE inner_key_type' = r.val /\ rest' = r.rest /\ Goto("check_inner")
    /\ UNCHANGED <<gen, data, key_parts, key_type, loader, decoded_data,
                   nums, curve_name, point, curve>>

\* first statement of a loader
EntryOf(l) ==
    CASE l = "rsa" -> "rsa_e"
      [] l = "dss" -> "dss_p"
      [] l = "ecdsa" -> "ec_curve_name"

\* line 64-69: compare the tag with the label, then call the loader
CheckInnerType ==
    /\ pc = "check_inner"
    /\ IF inner_key_type # key_type
       THEN Raise("TypeMismatch")
       ELSE Goto(EntryOf(loader))
    /\ UNCHANGED <<gen, data, key_parts, key_type, loader, decoded_data,
                   inner_key_type, rest, nums, curve_name, point, curve>>

\* one `v, rest = _read_next_mpint(rest)` of the RSA and DSS loaders
ReadMpint(here, next) ==
    /\ pc = here
    /\ LET r == _read_next_mpint(rest) IN
        IF r.err # "none"
        THEN Raise(r.err) /\ UNCHANGED <<nums, rest>>
        ELSE nums' = Append(nums, r.val) /\ rest' = r.rest /\ Goto(next)
    /\ UNCHANGED <<gen, data, key_parts, key_type, loader, decoded_data,
                   inner_key_type, curve_name, point, curve>>

\* mutant: the modulus is passed where the exponent belongs
RSAPublicNumbers_swapped(e, n) == [kind |-> "RSA", nums |-> <<n, e>>, curve |-> "none"]

\* rsa.RSAPublicNumbers(e, n)
RSAPublicNumbers(e, n) == [kind |-> "RSA", nums |-> <<e, n>>, curve |-> "none"]

\* dsa.DSAPublicNumbers(y, dsa.DSAParameterNumbers(p, q, g))
DSAPublicNumbers(y, p, q, g) == [kind |-> "DSA", nums |-> <<p, q, g, y>>, curve |-> "none"]

\* ec.EllipticCurvePublicNumbers(x, y, curve)
EllipticCurvePublicNumbers(x, y, c) == [kind |-> "EC", nums |-> <<x, y>>, curve |-> c]

\* mutant: the numbers are built without looking at the unread bytes
CheckRest_skipped(here, numbers) ==
    /\ pc = here
    /\ Return(numbers)
    /\ UNCHANGED <<gen, data, key_parts, key_type, loader, decoded_data,
                   inner_key_type, rest, nums, curve_name, point, curve>>

\* line 76-79 and 88-94: no byte may be left, then build the numbers
CheckRest(here, numbers) ==
    /\ pc = here
    /\ IF rest # <<>>
       THEN Raise("TrailingData")
       ELSE Return(numbers)
    /\ UNCHANGED <<gen, data, key_parts, key_type, loader, decoded_data,
                   inner_key_type, rest, nums, curve_name, point, curve>>

\* line 73
RsaReadE == ReadMpint("rsa_e", "rsa_n")
\* line 74
RsaReadN == ReadMpint("rsa_n", "rsa_rest")
\* line 76-79
RsaReturn == CheckRest("rsa_rest", RSAPublicNumbers(nums[1], nums[2]))

\* line 83
DssReadP == ReadMpint("dss_p", "dss_q")
\* line 84
DssReadQ == ReadMpint("dss_q", "dss_g")
\* line 85
DssReadG == ReadMpint("dss_g", "dss_y")
\* line 86
DssReadY == ReadMpint("dss_y", "dss_rest")
\* line 88-94
DssReturn == CheckRest("dss_rest", DSAPublicNumbers(nums[4], nums[1], nums[2], nums[3]))

\* line 98-99: one `s, rest = _read_next_string(rest)` of the ECDSA loader
EcReadString(here, next, isName) ==
    /\ pc = here
    /\ LET r == _read_next_string(rest) IN
        IF r.err # "none"
        THEN Raise(r.err) /\ UNCHANGED <<curve_name, point, rest>>
        ELSE /\ IF isName
                THEN curve_name' = r.val /\ UNCHANGED point
                ELSE point' = r.val /\ UNCHANGED curve_name
             /\ rest' = r.rest
             /\ Goto(next)
    /\ UNCHANGED <<gen, data, key_parts, key_type, loader, decoded_data,
                   inner_key_type, nums, curve>>

\* line 98
EcReadCurveName == EcReadString("ec_curve_name", "ec_data", TRUE)
\* line 99
EcReadData == EcReadString("ec_data", "ec_check_type", FALSE)

\* mutant: the label is not compared with "ecdsa-sha2-" + curve_name
EcCheckType_skipped ==
    /\ pc = "ec_check_type"
    /\ Goto("ec_check_rest")
    /\ UNCHANGED <<gen, data, key_parts, key_type, loader, decoded_data,
                   inner_key_type, rest, nums, curve_name, point, curve>>

\* mutant: the trailing-bytes check is left out
EcCheckType_norest ==
    /\ pc = "ec_check_type"
    /\ IF key_type # L_ecdsa_prefix \o curve_name
       THEN Raise("TypeMismatch")
       ELSE Goto("ec_lookup")
    /\ UNCHANGED <<gen, data, key_parts, key_type, loader, decoded_data,
                   inner_key_type, rest, nums, curve_name, point, curve>>

\* line 101-104: the label must be "ecdsa-sha2-" + curve_name
EcCheckType ==
    /\ pc = "ec_check_type"
    /\ IF key_type # L_ecdsa_prefix \o curve_name
       THEN Raise("TypeMismatch")
       ELSE Goto("ec_check_rest")
    /\ UNCHANGED <<gen, data, key_parts, key_type, loader, decoded_data,
                   inner_key_type, rest, nums, curve_name, point, curve>>

\* line 106-107: no byte may follow the point string
EcCheckRest ==
    /\ pc = "ec_check_rest"
    /\ IF rest # <<>>
       THEN Raise("TrailingData")
       ELSE Goto("ec_lookup")
    /\ UNCHANGED <<gen, data, key_parts, key_type, loader, decoded_data,
                   inner_key_type, rest, nums, curve_name, point, curve>>

\* line 109-113: the dictionary of curve names
CurveTable ==
    [n \in {N_nistp256, N_nistp384, N_nistp521} |->
        IF n = N_nistp256 THEN "SECP256R1"
        ELSE IF n = N_nistp384 THEN "SECP384R1"
        ELSE "SECP521R1"]

\* line 109-113: look the curve up, KeyError for a name that is no key
EcLookupCurve ==
    /\ pc = "ec_lookup"
    /\ IF curve_name \notin DOMAIN CurveTable
       THEN Raise("KeyError") /\ UNCHANGED curve
       ELSE curve' = CurveTable[curve_name] /\ Goto("ec_marker")
    /\ UNCHANGED <<gen, data, key_parts, key_type, loader, decoded_data,
                   inner_key_type, rest, nums, curve_name, point>>

\* line 115-118: six.indexbytes(data, 0) raises IndexError on empty data
EcCheckMarker ==
    /\ pc = "ec_marker"
    /\ IF Len(point) = 0
       THEN Raise("IndexError")
       ELSE IF point[1] # 4
       THEN Raise("CompressedPointUnsupported")
       ELSE Goto("ec_length")
    /\ UNCHANGED <<gen, data, key_parts, key_type, loader, decoded_data,
                   inner_key_type, rest, nums, curve_name, point, curve>>

\* mutant: the marker byte is not counted
PointLength_nomarker(c) == 2 * ((key_size(c) + 7) \div 8)

\* line 122: the length a point of the curve must have
PointLength(c) == 1 + 2 * ((key_size(c) + 7) \div 8)

\* line 122-123
EcCheckLength ==
    /\ pc = "ec_length"
    /\ IF Len(point) # PointLength(curve)
       THEN Raise("MalformedPoint")
       ELSE Goto("ec_numbers")
    /\ UNCHANGED <<gen, data, key_parts, key_type, loader, decoded_data,
                   inner_key_type, rest, nums, curve_name, point, curve>>

\* line 125-127: x is the first half of the coordinate bytes
PointX(p, c) == int_from_bytes(Slice(p, 1, 1 + (key_size(c) + 7) \div 8))
\* line 128-130: y is the second half
PointY(p, c) == int_from_bytes(SliceFrom(p, 1 + (key_size(c) + 7) \div 8))

\* line 125-131
EcReturn ==
    /\ pc = "ec_numbers"
    /\ Return(EllipticCurvePublicNumbers(PointX(point, curve), PointY(point, curve), curve))
    /\ UNCHANGED <<gen, data, key_parts, key_type, loader, decoded_data,
                   inner_key_type, rest, nums, curve_name, point, curve>>

Next ==
    \/ Split
    \/ Dispatch
    \/ B64Decode
    \/ ReadInnerType
    \/ CheckInnerType
    \/ RsaReadE
    \/ RsaReadN
    \/ RsaReturn
    \/ DssReadP
    \/ DssReadQ
    \/ DssReadG
    \/ DssReadY
    \/ DssReturn
    \/ EcReadCurveName
    \/ EcReadData
    \/ EcCheckType
    \/ EcCheckRest
    \/ EcLookupCurve
    \/ EcCheckMarker
    \/ EcCheckLength
    \/ EcReturn

Spec == Init /\ [][Next]_vars

----------------------------------------------------------------------------
(* Type correctness *)

ErrorKinds ==
    {"MalformedRecord", "TruncatedInput", "TrailingData", "TypeMismatch",
     "UnsupportedAlgorithm", "CompressedPointUnsupported", "MalformedPoint"}

Ended == pc \in {"done", "failed"}

TypeOK ==
    /\ loader \in {"none", "rsa", "dss", "ecdsa"}
    /\ curve \in {"none", "SECP256R1", "SECP384R1", "SECP521R1"}
    /\ err \in ErrorKinds \cup {"none", "struct.error", "IndexError", "KeyError"}
    /\ (pc = "done") => (err = "none" /\ result # NoResult)
    /\ (pc = "failed") <=> (err # "none")

----------------------------------------------------------------------------
(* Properties of the decoder *)

\* an input that is well formed up to what follows the last field of its blob
WellFormedHead(g) == WellFormed([g EXCEPT !.extra = <<>>, !.cut = 0])

\* the curve a label names
LabelCurve(label) ==
    CASE label = L_ecdsa_256 -> "SECP256R1"
      [] label = L_ecdsa_384 -> "SECP384R1"
      [] label = L_ecdsa_521 -> "SECP521R1"

\* the numbers an input was encoded from, as the backend should receive them
Encoded(g) ==
    CASE g.alg = "rsa"   -> [kind |-> "RSA", nums |-> g.vals, curve |-> "none"]
      [] g.alg = "dss"   -> [kind |-> "DSA", nums |-> g.vals, curve |-> "none"]
      [] g.alg = "ecdsa" -> [kind |-> "EC", nums |-> g.vals, curve |-> LabelCurve(g.label)]

\* C1: every well-formed record of a supported key type decodes, and the numbers
\* handed to the backend are the encoded ones, field by field and in order
\* (RSA e, n; DSA p, q, g, y; EC x = first half, y = second half of the
\* coordinate bytes, on the curve of the label).
C1_RoundTrip ==
    (Ended /\ WellFormed(gen)) => (pc = "done" /\ err = "none" /\ result = Encoded(gen))

\* a well-formed DSA key of four different-looking fields has been decoded
C1_Witness ==
    /\ pc = "done"
    /\ WellFormed(gen)
    /\ gen.alg = "dss"
    /\ gen.vals = <<65537, 128, 0, 128>>
    /\ result.nums = <<65537, 128, 0, 128>>

\* C4: a well-formed blob with bytes appended fails with TrailingData, and no
\* loader succeeds while bytes of the blob are unread.
C4_TrailingData ==
    /\ (Ended /\ WellFormedHead(gen) /\ gen.cut = 0 /\ Len(gen.extra) >= 1)
            => (pc = "failed" /\ err = "TrailingData")
    /\ (pc = "done") => (rest = <<>>)

\* an ECDSA key followed by one byte has been rejected
C4_Witness ==
    /\ pc = "failed"
    /\ err = "TrailingData"
    /\ WellFormedHead(gen)
    /\ gen.alg = "ecdsa"
    /\ gen.extra = <<0>>
    /\ rest = <<0>>

\* number of fields of a record: one more than it has spaces
FieldCount(d) == Cardinality({i \in DOMAIN d : d[i] = 32}) + 1

\* the first field of a record
FirstField(d) ==
    IF \E i \in DOMAIN d : d[i] = 32
    THEN SubSeq(d, 1, (CHOOSE i \in DOMAIN d : d[i] = 32 /\ \A j \in 1..(i - 1) : d[j] # 32) - 1)
    ELSE d

\* no statement after the dispatch has run
NothingDecoded ==
    /\ decoded_data = Unset
    /\ inner_key_type = Unset
    /\ rest = Unset
    /\ nums = <<>>
    /\ curve_name = Unset
    /\ point = Unset
    /\ result = NoResult

\* C7: a record of two or three fields whose label is not exactly one of the
\* five supported labels fails with UnsupportedAlgorithm, and no loader runs.
C7_ExactDispatch ==
    (Ended /\ FieldCount(data) \in {2, 3} /\ FirstField(data) \notin SupportedLabels)
        => (pc = "failed" /\ err = "UnsupportedAlgorithm" /\ NothingDecoded)

\* an extension of a supported label, in front of a blob tagged ssh-rsa, has been rejected
C7_Witness ==
    /\ pc = "failed"
    /\ err = "UnsupportedAlgorithm"
    /\ key_type = L_ssh_rsa2
    /\ gen.tag = L_ssh_rsa
    /\ gen.b64 = "ok"
    /\ Len(key_parts) = 2

\* C8: a record that does not split into two or three fields fails with
\* MalformedRecord before its label or body is looked at.
C8_FieldCount ==
    (pc # "split" /\ FieldCount(data) \notin {2, 3})
        => (pc = "failed" /\ err = "MalformedRecord" /\ key_type = Unset /\ NothingDecoded)

\* a record whose fourth field is the empty one after a trailing space has been rejected
C8_Witness ==
    /\ pc = "failed"
    /\ err = "MalformedRecord"
    /\ gen.frame = "trail_comment"
    /\ gen.label = L_ssh_rsa
    /\ Len(key_parts) = 4
    /\ key_parts[4] = <<>>

\* C10: the curve name looked up in the ECDSA loader is always one of the three
\* names of the table, so the lookup cannot fail; after a successful ECDSA
\* decode the label, the embedded tag and "ecdsa-sha2-" + curve name are equal
\* and the curve handed on is the one the label names.
C10_CurveLookup ==
    /\ (pc = "ec_lookup") => (curve_name \in {N_nistp256, N_nistp384, N_nistp521})
    /\ err # "KeyError"
    /\ (pc = "done" /\ loader = "ecdsa") =>
            /\ key_type = inner_key_type
            /\ key_type = L_ecdsa_prefix \o curve_name
            /\ result.curve = LabelCurve(FirstField(data))

\* the lookup of nistp521 is about to run
C10_Witness ==
    /\ pc = "ec_lookup"
    /\ curve_name = N_nistp521
    /\ key_type = L_ecdsa_521

\* the statements that call a reader
ReadSteps ==
    {"read_inner", "rsa_e", "rsa_n", "dss_p", "dss_q", "dss_g", "dss_y",
     "ec_curve_name", "ec_data"}

\* the bytes the reader of the statement at pc is given
Unread == IF pc = "read_inner" THEN decoded_data ELSE rest

\* fewer than four bytes, or a declared length beyond the bytes after the prefix
ShortRead(d) == Len(d) < 4 \/ unpack_u32(SubSeq(d, 1, 4)) > Len(d) - 4

\* C2: at every read step, fewer than 4 remaining bytes or a declared length
\* that exceeds the bytes after the prefix makes the call fail with
\* TruncatedInput; no shortened string or integer is returned.  (The
\* struct.error of a prefix shorter than 4 bytes is taken for TruncatedInput
\* here; C5 is about its kind.)
C2_TruncatedInput ==
    [][(pc \in ReadSteps /\ ShortRead(Unread))
            => (pc' = "failed" /\ err' \in {"TruncatedInput", "struct.error"})]_vars

\* the blob of a record of two or three fields, B64Error if the body does not decode
BlobOfRecord(d) == b64decode(split(d)[2])

\* the string at the start of the blob can be read and is not the label
TagDiffers(d) ==
    LET t == _read_next_string(BlobOfRecord(d))
    IN  t.err = "none" /\ t.val # FirstField(d)

\* the curve name after the tag can be read and "ecdsa-sha2-" + name is not the label
CurveDiffers(d) ==
    LET t == _read_next_string(BlobOfRecord(d))
        c == _read_next_string(t.rest)
    IN  t.err = "none" /\ c.err = "none" /\ FirstField(d) # L_ecdsa_prefix \o c.val

\* the three strings of an ECDSA blob can be read and the tag is the label
EcdsaReadable(d) ==
    LET t == _read_next_string(BlobOfRecord(d))
        c == _read_next_string(t.rest)
        q == _read_next_string(c.rest)
    IN  t.err = "none" /\ c.err = "none" /\ q.err = "none" /\ t.val = FirstField(d)

\* C3 as stated: whenever the body decodes and the label differs from the
\* embedded tag, or for an ECDSA label from "ecdsa-sha2-" + curve name, the
\* call fails with TypeMismatch.
C3_Original ==
    (/\ Ended
     /\ FieldCount(data) \in {2, 3}
     /\ BlobOfRecord(data) # B64Error
     /\ \/ TagDiffers(data)
        \/ FirstField(data) \in EcdsaLabels /\ CurveDiffers(data))
        => (pc = "failed" /\ err = "TypeMismatch")

\* C3: for a record of two or three fields whose label is one of the five
\* supported labels and whose body decodes, the call fails with TypeMismatch
\* if the string at the start of the blob can be read and differs from the
\* label, or if the label is an ECDSA label, the tag equals it, the curve name
\* and the point string can both be read and "ecdsa-sha2-" + curve name
\* differs from the label.
C3_TypeMismatch ==
    (/\ Ended
     /\ FieldCount(data) \in {2, 3}
     /\ FirstField(data) \in SupportedLabels
     /\ BlobOfRecord(data) # B64Error
     /\ \/ TagDiffers(data)
        \/ /\ FirstField(data) \in EcdsaLabels
           /\ EcdsaReadable(data)
           /\ CurveDiffers(data))
        => (pc = "failed" /\ err = "TypeMismatch")

\* a blob tagged like its nistp256 label but naming nistp384 has been rejected
C3_Witness ==
    /\ pc = "failed"
    /\ err = "TypeMismatch"
    /\ key_type = L_ecdsa_256
    /\ inner_key_type = L_ecdsa_256
    /\ curve_name = N_nistp384
    /\ point # Unset

\* C5: a call ends with the decoded numbers or with one of the seven error
\* kinds; no other exception reaches the caller.
C5_ErrorKinds == Ended => (pc = "done" \/ err \in ErrorKinds)

\* the length of an uncompressed point of the curve a name stands for
UncompressedLength(name) ==
    CASE name = N_nistp256 -> 65
      [] name = N_nistp384 -> 97
      [] name = N_nistp521 -> 133

\* what C6 says of the point the ECDSA loader has read
PointVerdict ==
    /\ (point # <<>> /\ point[1] # 4)
            => (pc = "failed" /\ err = "CompressedPointUnsupported")
    /\ (point # <<>> /\ point[1] = 4 /\ Len(point) # UncompressedLength(curve_name))
            => (pc = "failed" /\ err = "MalformedPoint")
    /\ (pc = "done")
            => (point # <<>> /\ point[1] = 4 /\ Len(point) = UncompressedLength(curve_name))

\* the ECDSA loader has ended with the point read, on the curve of the label
EcdsaEnded ==
    /\ Ended
    /\ loader = "ecdsa"
    /\ point # Unset
    /\ curve_name \in CurveNames
    /\ key_type = L_ecdsa_prefix \o curve_name

\* C6 as stated: in the ECDSA loader a point that does not start with 0x04
\* fails with CompressedPointUnsupported, one that does but has not the length
\* of its curve (65, 97, 133) fails with MalformedPoint, and only a 0x04 point
\* of that length decodes.
C6_Original == EcdsaEnded => PointVerdict

\* C6: the same, for a blob in which no byte follows the point string.
C6_PointChecks == (EcdsaEnded /\ rest = <<>>) => PointVerdict

\* a P-256 point of one byte too many has been rejected
C6_Witness ==
    /\ EcdsaEnded
    /\ rest = <<>>
    /\ err = "MalformedPoint"
    /\ curve = "SECP256R1"
    /\ point[1] = 4
    /\ Len(point) = 66

\* C9 as stated: the label is compared with the embedded tag before the
\* dispatcher may reject it, and the point marker and length checks of the
\* ECDSA loader are made before its trailing-bytes check.
C9_Original ==
    /\ (err = "UnsupportedAlgorithm") => (inner_key_type = key_type)
    /\ (pc = "ec_check_rest") =>
            (point # <<>> /\ point[1] = 4 /\ Len(point) = UncompressedLength(curve_name))

\* the statement that follows a statement that did not fail
Following(p) ==
    CASE p = "split"         -> "dispatch"
      [] p = "dispatch"      -> "b64decode"
      [] p = "b64decode"     -> "read_inner"
      [] p = "read_inner"    -> "check_inner"
      [] p = "check_inner"   ->
            (IF loader = "rsa" THEN "rsa_e" ELSE IF loader = "dss" THEN "dss_p"
             ELSE "ec_curve_name")
      [] p = "rsa_e"         -> "rsa_n"
      [] p = "rsa_n"         -> "rsa_rest"
      [] p = "rsa_rest"      -> "done"
      [] p = "dss_p"         -> "dss_q"
      [] p = "dss_q"         -> "dss_g"
      [] p = "dss_g"         -> "dss_y"
      [] p = "dss_y"         -> "dss_rest"
      [] p = "dss_rest"      -> "done"
      [] p = "ec_curve_name" -> "ec_data"
      [] p = "ec_data"       -> "ec_check_type"
      [] p = "ec_check_type" -> "ec_check_rest"
      [] p = "ec_check_rest" -> "ec_lookup"
      [] p = "ec_lookup"     -> "ec_marker"
      [] p = "ec_marker"     -> "ec_length"
      [] p = "ec_length"     -> "ec_numbers"
      [] p = "ec_numbers"    -> "done"

\* what has been checked when a statement is reached
Checked ==
    /\ (err = "UnsupportedAlgorithm") => NothingDecoded
    /\ (pc \in {"read_inner", "check_inner"}) => (loader # "none" /\ decoded_data # Unset)
    /\ (pc \in {"rsa_e", "dss_p", "ec_curve_name"}) => (inner_key_type = key_type)
    /\ (pc \in {"ec_lookup", "ec_marker", "ec_length", "ec_numbers"}) =>
            (key_type = L_ecdsa_prefix \o curve_name /\ rest = <<>>)
    /\ (pc = "ec_numbers") => (point[1] = 4 /\ Len(point) = UncompressedLength(curve_name))

\* C9: a call runs its steps in one fixed linear order: Split, Dispatch,
\* Base64-Decode, Verify-Label, Decode-Fields, Verify-No-Trailing-Bytes, Done,
\* and in the ECDSA loader: curve name, point string, label check,
\* Verify-No-Trailing-Bytes, curve lookup, point marker, point length, Done.
\* A step is entered only after every earlier one has succeeded, none is
\* entered twice, and the first failing step ends the call.  The dispatcher
\* rejects an unsupported label before the body is decoded or the tag
\* compared, and the trailing-bytes check of the ECDSA loader comes before
\* its point checks.
C9_LinearOrder ==
    /\ []Checked
    /\ [][(pc' # pc) => (~Ended /\ pc' \in {"failed", Following(pc)})]_vars

\* the marker check is reached with a compressed point, the trailing-bytes check passed
C9_Witness ==
    /\ pc = "ec_marker"
    /\ point # <<>>
    /\ point[1] = 2
    /\ rest = <<>>
    /\ inner_key_type = key_type

====
